---------------------------- MODULE Spec2Model ----------------------------
(***************************************************************************)
(* A model of gemini_agent: the direct wrapper GeminiAgent.run (core/     *)
(* agent.py) as a state machine over a file system, the HTTP service and   *)
(* its queue worker (server/), and the polling client (client/).  Strings  *)
(* are TLA+ strings, used as sequences of characters (Len, \o, SubSeq,     *)
(* Head, Tail).  The file system holds directories and regular files (no   *)
(* symbolic links, every file readable by its owner).                      *)
(***************************************************************************)
EXTENDS Integers, Sequences, FiniteSets, TLC

VARIABLES
    config,         \* self.config, the AgentConfig built by __init__
    fs,             \* the file system: absolute path (tuple of names) -> node
    pc,             \* position of the one caller inside run()/_execute()
    args,           \* the arguments of the current run() call
    use_temp_dir,   \* run(): working_directory is None
    work_path,      \* run(): the Path of the workspace
    todo,           \* _execute(): the items of files not yet iterated
    initial_files,  \* _execute(): the snapshot dict, filename -> content
    command,        \* _execute(): the argument list
    proc,           \* what subprocess.run did
    outcome,        \* what run() returned or raised
    http,           \* the last HTTP exchange of the service: request and response
    request,        \* the TaskRequest that POST /tasks accepted
    broker,         \* the queue: the messages waiting, and the one not yet acknowledged
    meta,           \* the result backend's record of the task: status and result
    revoked,        \* the worker's set of revoked ids holds the task
    worker,         \* the worker's position in run_gemini_task, and its history
    client,         \* the polling client inside wait_for_result
    clock,          \* time.time() of the client
    other,          \* the pool process that is not scheduled: its run() state
    seen            \* the first terminal response that a GET has shown

\* the state of the service, its worker pool and its client
service == <<http, request, broker, meta, revoked, worker, client, clock, other, seen>>

vars == <<config, fs, pc, args, use_temp_dir, work_path, todo, initial_files,
          command, proc, outcome, service>>

(***************************************************************************)
(* Optional values: None, or Some(x).                                      *)
(***************************************************************************)
None == <<>>
Some(x) == <<x>>
Get(o) == o[1]

(***************************************************************************)
(* Characters that stand for what a TLA+ string cannot hold.               *)
(***************************************************************************)
Surrogate == "~"    \* a lone surrogate code point: str that UTF-8 cannot encode
BadByte == "#"      \* a byte that is not valid UTF-8

(***************************************************************************)
(* str methods.                                                            *)
(***************************************************************************)
StartsWith(s, t) == Len(t) <= Len(s) /\ SubSeq(s, 1, Len(t)) = t

Contains(s, t) == \E k \in 1..(Len(s) - Len(t) + 1) : SubSeq(s, k, k + Len(t) - 1) = t

HasChar(s, c) == \E k \in 1..Len(s) : SubSeq(s, k, k) = c

RECURSIVE Split(_)
\* s.split("/")
Split(s) ==
    IF s = "" THEN <<"">>
    ELSE LET rest == Split(Tail(s)) IN
         IF Head(s) = "/" THEN <<"">> \o rest
         ELSE <<Head(s) \o Head(rest)>> \o Tail(rest)

RECURSIVE JoinWith(_, _)
\* sep.join(parts)
JoinWith(sep, parts) ==
    IF parts = <<>> THEN ""
    ELSE IF Len(parts) = 1 THEN parts[1]
    ELSE parts[1] \o sep \o JoinWith(sep, Tail(parts))

(***************************************************************************)
(* pathlib.  A Path is [abs, parts]; "" and "." components are dropped by  *)
(* the constructor, ".." is kept until resolve().                          *)
(***************************************************************************)
IsRealPart(c) == c # "" /\ c # "."

Path(s) == [abs |-> StartsWith(s, "/"), parts |-> SelectSeq(Split(s), IsRealPart)]

\* p / s
Join(p, s) ==
    LET q == Path(s) IN
    IF q.abs THEN q ELSE [abs |-> p.abs, parts |-> p.parts \o q.parts]

\* The process's current directory, for resolving a relative Path.
Cwd == <<"home">>

RECURSIVE Normalize(_, _)
Normalize(done, rest) ==
    IF rest = <<>> THEN done
    ELSE IF Head(rest) = ".."
         THEN Normalize(IF done = <<>> THEN <<>> ELSE SubSeq(done, 1, Len(done) - 1),
                        Tail(rest))
         ELSE Normalize(Append(done, Head(rest)), Tail(rest))

\* p.resolve(): the absolute location, a tuple of names below "/"
Resolve(p) == Normalize(<<>>, IF p.abs THEN p.parts ELSE Cwd \o p.parts)

\* str() of an absolute location
Str(loc) == "/" \o JoinWith("/", loc)

\* loc.parent
Parent(loc) == IF loc = <<>> THEN <<>> ELSE SubSeq(loc, 1, Len(loc) - 1)

\* loc is root or lies below it, component by component
IsUnder(loc, root) == Len(root) <= Len(loc) /\ SubSeq(loc, 1, Len(root)) = root

\* str(loc.relative_to(root))
RelativeTo(loc, root) == JoinWith("/", SubSeq(loc, Len(root) + 1, Len(loc)))

(***************************************************************************)
(* The file system.                                                        *)
(***************************************************************************)
Dir == [kind |-> "dir", data |-> ""]
File(bytes) == [kind |-> "file", data |-> bytes]

Exists(f, loc) == loc \in DOMAIN f
IsDir(f, loc) == Exists(f, loc) /\ f[loc].kind = "dir"
IsFile(f, loc) == Exists(f, loc) /\ f[loc].kind = "file"

Prefixes(loc) == {SubSeq(loc, 1, k) : k \in 0..Len(loc)}

\* loc.mkdir(parents=True, exist_ok=True)
Mkdir(f, loc) ==
    IF \E q \in Prefixes(loc) : IsFile(f, q)
    THEN [raised |-> Some("FileExistsError"), fs |-> f]
    ELSE [raised |-> None,
          fs |-> [q \in DOMAIN f \cup Prefixes(loc) |-> IF q \in DOMAIN f THEN f[q] ELSE Dir]]

\* write_text: "\n" becomes os.linesep, which is "\n" here, and the text is
\* encoded as UTF-8; the characters of the model are their own encoding
Encodable(text) == ~HasChar(text, Surrogate)
Encode(text) == text

\* bytes.decode("utf-8")
Decodable(bytes) == ~HasChar(bytes, BadByte)

RECURSIVE UniversalNewlines(_)
\* reading in text mode with newline=None: "\r\n" and "\r" become "\n"
UniversalNewlines(s) ==
    IF s = "" THEN ""
    ELSE IF Head(s) = "\r"
         THEN IF Len(s) >= 2 /\ SubSeq(s, 2, 2) = "\n"
              THEN "\n" \o UniversalNewlines(SubSeq(s, 3, Len(s)))
              ELSE "\n" \o UniversalNewlines(Tail(s))
         ELSE Head(s) \o UniversalNewlines(Tail(s))

\* loc.write_text(content, encoding="utf-8"): the file is opened (created or
\* truncated) before the text is encoded
WriteText(f, loc, content) ==
    IF IsDir(f, loc) THEN [raised |-> Some("IsADirectoryError"), fs |-> f]
    ELSE IF ~IsDir(f, Parent(loc)) THEN [raised |-> Some("FileNotFoundError"), fs |-> f]
    ELSE IF ~Encodable(content)
         THEN [raised |-> Some("UnicodeEncodeError"), fs |-> (loc :> File("")) @@ f]
         ELSE [raised |-> None, fs |-> (loc :> File(Encode(content))) @@ f]

\* loc.read_text(encoding="utf-8")
ReadText(f, loc) ==
    IF ~Decodable(f[loc].data) THEN [raised |-> Some("UnicodeDecodeError"), text |-> ""]
    ELSE [raised |-> None, text |-> UniversalNewlines(f[loc].data)]

\* shutil.rmtree(loc, ignore_errors=True)
Rmtree(f, loc) == [q \in {r \in DOMAIN f : ~IsUnder(r, loc)} |-> f[q]]


(***************************************************************************)
(* core/models.py                                                          *)
(***************************************************************************)
DEFAULT == "default"
AUTO_EDIT == "auto_edit"
YOLO == "yolo"
ApprovalMode == {DEFAULT, AUTO_EDIT, YOLO}

TEXT == "text"
JSON == "json"
STREAM_JSON == "stream-json"
OutputFormat == {TEXT, JSON, STREAM_JSON}

AgentConfig(model, timeout, approval_mode, sandbox, output_format) ==
    [model |-> model, timeout |-> timeout, approval_mode |-> approval_mode,
     sandbox |-> sandbox, output_format |-> output_format]

EmptyDict == <<>>

AgentResult(success, response, modified_files, stdout, stderr, return_code, error) ==
    [success |-> success, response |-> response, modified_files |-> modified_files,
     stdout |-> stdout, stderr |-> stderr, return_code |-> return_code, error |-> error]

\* AgentResult.from_error
from_error(error) == AgentResult(FALSE, None, EmptyDict, "", "", -1, Some(error))

(***************************************************************************)
(* _execute, lines 154-162: one iteration of the loop over files.items().  *)
(***************************************************************************)
SeedFile(f, snapshot, wp, filename, content) ==
    LET file_path == Resolve(Join(wp, filename)) IN
    IF ~StartsWith(Str(file_path), Str(Resolve(wp)))
    THEN [raised |-> None, fs |-> f, initial_files |-> snapshot]
    ELSE LET made == Mkdir(f, Parent(file_path)) IN
         IF made.raised # None
         THEN [raised |-> made.raised, fs |-> made.fs, initial_files |-> snapshot]
         ELSE LET written == WriteText(made.fs, file_path, content) IN
              IF written.raised # None
              THEN [raised |-> written.raised, fs |-> written.fs, initial_files |-> snapshot]
              ELSE [raised |-> None, fs |-> written.fs,
                    initial_files |-> (filename :> content) @@ snapshot]

(***************************************************************************)
(* _execute, lines 164-196: the argument list.  A list argument that is    *)
(* None is the empty list here: the code only tests its truth value.       *)
(***************************************************************************)
\* the include directories batched behind one flag, like the other lists
IncludeBatched(dirs) == IF dirs = <<>> THEN <<>> ELSE <<"--include-directories">> \o dirs

RECURSIVE IncludePairs(_)
IncludePairs(dirs) ==
    IF dirs = <<>> THEN <<>>
    ELSE <<"--include-directories", Head(dirs)>> \o IncludePairs(Tail(dirs))

ApprovalArgs(mode) ==
    IF mode = YOLO THEN <<"-y">>
    ELSE IF mode \in {DEFAULT, AUTO_EDIT} THEN <<"--approval-mode", mode>>
    ELSE <<>>

BuildCommand(cfg, a) ==
    <<"gemini", "--output-format", cfg.output_format>>
    \o (IF cfg.model # "" THEN <<"--model", cfg.model>> ELSE <<>>)
    \o ApprovalArgs(cfg.approval_mode)
    \o (IF cfg.sandbox THEN <<"--sandbox">> ELSE <<>>)
    \o (IF a.mcp_servers # <<>> THEN <<"--allowed-mcp-server-names">> \o a.mcp_servers ELSE <<>>)
    \o (IF a.allowed_tools # <<>> THEN <<"--allowed-tools">> \o a.allowed_tools ELSE <<>>)
    \o (IF a.extensions # <<>> THEN <<"--extensions">> \o a.extensions ELSE <<>>)
    \o IncludePairs(a.include_directories)
    \o (IF a.resume_session # None /\ Get(a.resume_session) # ""
        THEN <<"--resume", Get(a.resume_session)>> ELSE <<>>)
    \o <<a.prompt>>

(***************************************************************************)
(* json.loads, on the texts made of the characters [ ] { } 1 and the      *)
(* comma: numbers written with the digit 1, arrays, and the empty object.  *)
(***************************************************************************)
JNum(n) == [t |-> "number", v |-> n]
JArr(items) == [t |-> "array", v |-> items]
JObj(members) == [t |-> "object", v |-> members]
JStr(s) == [t |-> "string", v |-> s]

ParseFail == [ok |-> FALSE, val |-> JNum(0), rest |-> ""]

RECURSIVE Digits(_)
\* the length of the run of digits at the head of s
Digits(s) == IF s # "" /\ Head(s) = "1" THEN 1 + Digits(Tail(s)) ELSE 0

RECURSIVE Ones(_)
\* the number written as n digits 1
Ones(n) == IF n = 0 THEN 0 ELSE 10 * Ones(n - 1) + 1

RECURSIVE ParseValue(_), ParseItems(_, _)
ParseValue(s) ==
    IF s = "" THEN ParseFail
    ELSE IF Head(s) = "1"
         THEN [ok |-> TRUE, val |-> JNum(Ones(Digits(s))),
               rest |-> SubSeq(s, Digits(s) + 1, Len(s))]
    ELSE IF StartsWith(s, "{}")
         THEN [ok |-> TRUE, val |-> JObj({}), rest |-> SubSeq(s, 3, Len(s))]
    ELSE IF StartsWith(s, "[]")
         THEN [ok |-> TRUE, val |-> JArr(<<>>), rest |-> SubSeq(s, 3, Len(s))]
    ELSE IF Head(s) = "[" THEN ParseItems(Tail(s), <<>>)
    ELSE ParseFail

\* after "[" or ",": a value, then "]" or "," and more items
ParseItems(s, acc) ==
    LET item == ParseValue(s) IN
    IF ~item.ok THEN ParseFail
    ELSE IF StartsWith(item.rest, "]")
         THEN [ok |-> TRUE, val |-> JArr(Append(acc, item.val)), rest |-> Tail(item.rest)]
    ELSE IF StartsWith(item.rest, ",")
         THEN ParseItems(Tail(item.rest), Append(acc, item.val))
    ELSE ParseFail

\* json.loads(s): raises JSONDecodeError unless the whole text is one value
JsonLoads(s) ==
    LET parsed == ParseValue(s) IN
    IF parsed.ok /\ parsed.rest = "" THEN [raised |-> None, val |-> parsed.val]
    ELSE [raised |-> Some("JSONDecodeError"), val |-> JNum(0)]

\* {"raw_output": stdout}
RawOutput(stdout) == JObj({<<"raw_output", JStr(stdout)>>})

(***************************************************************************)
(* _execute, lines 218-226: the response.                                  *)
(***************************************************************************)
\* the response without the call of json.loads
ParseResponseNeverLoads(cfg, stdout) ==
    IF stdout = "" THEN None ELSE Some(RawOutput(stdout))

\* the response without the except clause: no response when parsing fails
ParseResponseNoFallback(cfg, stdout) ==
    IF stdout = "" THEN None
    ELSE IF cfg.output_format = JSON
         THEN LET loaded == JsonLoads(stdout) IN
              IF loaded.raised = None THEN Some(loaded.val) ELSE None
         ELSE Some(RawOutput(stdout))

ParseResponse(cfg, stdout) ==
    IF stdout = "" THEN None
    ELSE IF cfg.output_format = JSON
         THEN LET loaded == JsonLoads(stdout) IN
              IF loaded.raised = None THEN Some(loaded.val) ELSE Some(RawOutput(stdout))
         ELSE Some(RawOutput(stdout))

(***************************************************************************)
(* _execute, lines 228-241: the walk over the workspace.                   *)
(***************************************************************************)
\* work_path.rglob("*"): everything below the workspace root
Rglob(f, root) == {loc \in DOMAIN f : IsUnder(loc, root) /\ loc # root}

\* whether the walk records the file at loc
Reported(f, root, snapshot, loc) ==
    LET relative_path == RelativeTo(loc, root)
        content == ReadText(f, loc)
    IN  /\ IsFile(f, loc)
        /\ ~StartsWith(relative_path, ".")
        /\ content.raised = None
        /\ \/ relative_path \notin DOMAIN snapshot
           \/ snapshot[relative_path] # content.text

ModifiedFiles(f, wp, snapshot) ==
    LET root == Resolve(wp)
        hits == {loc \in Rglob(f, root) : Reported(f, root, snapshot, loc)}
    IN  [r \in {RelativeTo(loc, root) : loc \in hits} |->
            ReadText(f, CHOOSE loc \in hits : RelativeTo(loc, root) = r).text]

(***************************************************************************)
(* _execute, lines 243-250: the result of a completed process.             *)
(***************************************************************************)
\* the result with success tested against the sentinel of from_error
AssembledSentinelSuccess(cfg, p, f, wp, snapshot) ==
    AgentResult(p.returncode # -1, ParseResponse(cfg, p.stdout),
                ModifiedFiles(f, wp, snapshot), p.stdout, p.stderr, p.returncode, None)

Assembled(cfg, p, f, wp, snapshot) ==
    AgentResult(p.returncode = 0, ParseResponse(cfg, p.stdout),
                ModifiedFiles(f, wp, snapshot), p.stdout, p.stderr, p.returncode, None)

(***************************************************************************)
(* The machine the agent runs on, before any call.                         *)
(***************************************************************************)
TempDir == <<"tmp">>                 \* tempfile.gettempdir()
TempPrefix == "gemini_agent_"        \* run(): mkdtemp(prefix=...)
TempSuffixes == {"a", "b", "c", "d"}           \* the random part of a mkdtemp name

\* /tmp holds a directory left by an earlier run (with a file in it) and a
\* regular file; /home is the current directory and holds a project
\* directory with a file.
InitFs ==
    (<<>> :> Dir) @@ (<<"tmp">> :> Dir) @@ (<<"home">> :> Dir)
    @@ (<<"home", "proj">> :> Dir)
    @@ (<<"home", "proj", "keep">> :> File("k"))
    @@ (<<"tmp", "gemini_agent_a">> :> Dir)
    @@ (<<"tmp", "gemini_agent_a", "old">> :> File("o"))
    @@ (<<"tmp", "f">> :> File("f"))

(***************************************************************************)
(* What the external process does: it may write files below its current   *)
(* directory, and it ends by timing out, by failing to start, or with an   *)
(* exit code, stdout and stderr.                                           *)
(***************************************************************************)
Timeout(writes) ==
    [kind |-> "timeout", returncode |-> 0, stdout |-> "", stderr |-> "", msg |-> "",
     writes |-> writes]
Failed(msg) ==
    [kind |-> "error", returncode |-> 0, stdout |-> "", stderr |-> "", msg |-> msg,
     writes |-> <<>>]
Completed(returncode, stdout, stderr, writes) ==
    [kind |-> "completed", returncode |-> returncode, stdout |-> stdout,
     stderr |-> stderr, msg |-> "", writes |-> writes]

\* the process writes bytes to the file `name` of its current directory
ProcWrite(f, wp, name, bytes) ==
    LET loc == Resolve(Join(wp, name))
        made == Mkdir(f, Parent(loc))
    IN  IF made.raised # None \/ IsDir(made.fs, loc) THEN f
        ELSE (loc :> File(bytes)) @@ made.fs

RECURSIVE ProcWrites(_, _, _)
ProcWrites(f, wp, writes) ==
    IF writes = <<>> THEN f
    ELSE ProcWrites(ProcWrite(f, wp, Head(writes)[1], Head(writes)[2]), wp, Tail(writes))

(***************************************************************************)
(* run() and _execute(), step by step.                                     *)
(***************************************************************************)
NoOutcome == [kind |-> "none", result |-> None, exc |-> ""]
Returned(result) == [kind |-> "returned", result |-> Some(result), exc |-> ""]
Raised(exc) == [kind |-> "raised", result |-> None, exc |-> exc]

NoProc ==
    [kind |-> "none", returncode |-> 0, stdout |-> "", stderr |-> "", msg |-> "",
     writes |-> <<>>]

\* a finally clause that removes the workspace in every case
FinallyAlwaysRemoves(f) == Rmtree(f, Resolve(work_path))

\* run(), lines 134-138: the finally clause
Finally(f) == IF use_temp_dir THEN Rmtree(f, Resolve(work_path)) ELSE f

\* a workspace under a name that does not vary
MkdtempFixedName(f) == {TempDir \o <<TempPrefix \o "b">>}

\* run(), line 117: a directory of /tmp that did not exist
Mkdtemp(f) ==
    {TempDir \o <<TempPrefix \o x>> : x \in {y \in TempSuffixes : ~Exists(f, TempDir \o <<TempPrefix \o y>>)}}

\* run(), lines 113-121
Call(universe) ==
    /\ pc = "idle"
    /\ \E a \in universe :
        /\ args' = a
        /\ use_temp_dir' = (a.working_directory = None)
        /\ todo' = a.files
        /\ IF a.working_directory = None
           THEN \E temp_dir \in Mkdtemp(fs) :
                    /\ work_path' = Path(Str(temp_dir))
                    /\ fs' = (temp_dir :> Dir) @@ fs
                    /\ pc' = "seeding"
                    /\ outcome' = outcome
           ELSE LET made == Mkdir(fs, Resolve(Path(Get(a.working_directory)))) IN
                    /\ work_path' = Path(Get(a.working_directory))
                    /\ fs' = made.fs
                    /\ pc' = IF made.raised = None THEN "seeding" ELSE "done"
                    /\ outcome' = IF made.raised = None THEN outcome
                                  ELSE Raised(Get(made.raised))
    /\ UNCHANGED <<config, initial_files, command, proc, service>>

\* _execute(), lines 154-162: the next item of files
Seed ==
    /\ pc = "seeding"
    /\ todo # <<>>
    /\ LET seeded == SeedFile(fs, initial_files, work_path, Head(todo)[1], Head(todo)[2]) IN
        IF seeded.raised = None
        THEN /\ fs' = seeded.fs
             /\ initial_files' = seeded.initial_files
             /\ todo' = Tail(todo)
             /\ UNCHANGED <<pc, outcome>>
        ELSE /\ fs' = Finally(seeded.fs)
             /\ pc' = "done"
             /\ outcome' = Raised(Get(seeded.raised))
             /\ UNCHANGED <<initial_files, todo>>
    /\ UNCHANGED <<config, args, use_temp_dir, work_path, command, proc, service>>

\* _execute(), lines 164-196
Build ==
    /\ pc = "seeding"
    /\ todo = <<>>
    /\ command' = BuildCommand(config, args)
    /\ pc' = "built"
    /\ UNCHANGED <<config, fs, args, use_temp_dir, work_path, todo, initial_files,
                   proc, outcome, service>>

\* the message without the timeout value
TimeoutMessageNoValue(cfg) == "Command timed out"

\* _execute(), line 214
TimeoutMessage(cfg) == "Command timed out after " \o ToString(cfg.timeout) \o " seconds"

\* _execute(), lines 204-216: subprocess.run in the workspace
RunProcess(universe) ==
    /\ pc = "built"
    /\ \E p \in universe :
        LET after == ProcWrites(fs, work_path, p.writes) IN
        /\ proc' = p
        /\ IF p.kind = "completed"
           THEN /\ fs' = after
                /\ pc' = "ran"
                /\ outcome' = outcome
           ELSE /\ fs' = Finally(after)
                /\ pc' = "done"
                /\ outcome' = IF p.kind = "timeout"
                              THEN Returned(from_error(TimeoutMessage(config)))
                              ELSE Returned(from_error(p.msg))
    /\ UNCHANGED <<config, args, use_temp_dir, work_path, todo, initial_files, command,
                   service>>

\* _execute(), lines 218-250, and the finally clause of run()
Assemble ==
    /\ pc = "ran"
    /\ outcome' = Returned(Assembled(config, proc, fs, work_path, initial_files))
    /\ fs' = Finally(fs)
    /\ pc' = "done"
    /\ UNCHANGED <<config, args, use_temp_dir, work_path, todo, initial_files,
                   command, proc, service>>

\* the state after GeminiAgent(...) with the configuration cfg
Constructed(cfg) ==
    /\ config = cfg
    /\ fs = InitFs
    /\ pc = "idle"
    /\ args = [prompt |-> "", files |-> <<>>, mcp_servers |-> <<>>, allowed_tools |-> <<>>,
               extensions |-> <<>>, include_directories |-> <<>>,
               working_directory |-> None, resume_session |-> None]
    /\ use_temp_dir = FALSE
    /\ work_path = Path("/")
    /\ todo = <<>>
    /\ initial_files = EmptyDict
    /\ command = <<>>
    /\ proc = NoProc
    /\ outcome = NoOutcome

RunArgs(prompt, files, mcp, tools, exts, dirs, working_directory, resume_session) ==
    [prompt |-> prompt, files |-> files, mcp_servers |-> mcp,
     allowed_tools |-> tools, extensions |-> exts, include_directories |-> dirs,
     working_directory |-> working_directory, resume_session |-> resume_session]

(***************************************************************************)
(* The service.  One task, whose id the caller has from POST /tasks.       *)
(* server/models.py: TaskStatus.                                           *)
(***************************************************************************)
PENDING == "PENDING"
STARTED == "STARTED"
SUCCESS == "SUCCESS"
FAILURE == "FAILURE"
RETRY == "RETRY"
REVOKED == "REVOKED"
TaskStatus == {PENDING, STARTED, SUCCESS, FAILURE, RETRY, REVOKED}

\* server/config.py: Settings
gemini_timeout == 300
gemini_model == ""

\* server/models.py, lines 40-42: Field(..., min_length=1, max_length=100000)
min_length == 1
max_length == 100000

\* server/worker.py, line 40: the options of the task
max_retries == 2
default_retry_delay == 30

\* server/models.py, lines 37-62: a request body, as the caller sends it
TaskRequest(prompt, model, approval_mode, sandbox, mcp, tools, exts, dirs, output_format, files, context) ==
    [prompt |-> prompt, model |-> model, approval_mode |-> approval_mode,
     sandbox |-> sandbox, mcp_servers |-> mcp, allowed_tools |-> tools,
     extensions |-> exts, include_directories |-> dirs,
     output_format |-> output_format, files |-> files, context |-> context]

\* the validation of a body against TaskRequest
Validates(body) ==
    /\ min_length <= Len(body.prompt)
    /\ Len(body.prompt) <= max_length
    /\ body.approval_mode \in ApprovalMode
    /\ body.output_format \in OutputFormat

RECURSIVE DumpMembers(_)
\* the members of a dict of numbers, one per line, indented by two spaces
DumpMembers(d) ==
    IF d = <<>> THEN ""
    ELSE "  \"" \o Head(d)[1] \o "\": " \o ToString(Head(d)[2])
         \o (IF Tail(d) = <<>> THEN "" ELSE ",\n" \o DumpMembers(Tail(d)))

\* json.dumps(context, indent=2), for a dict whose values are numbers
JsonDumps(d) == IF d = <<>> THEN "{}" ELSE "{\n" \o DumpMembers(d) \o "\n}"

\* create_task, lines 24-27
FullPrompt(body) ==
    IF body.context # None /\ Get(body.context) # <<>>
    THEN body.prompt \o "\n\n---\n\nContext:\n" \o JsonDumps(Get(body.context))
    ELSE body.prompt

\* create_task, lines 29-40: the keyword arguments of run_gemini_task.delay;
\* resume_session is not passed and keeps its default (worker.py, line 53)
TaskArgs(body) ==
    [prompt |-> FullPrompt(body), files |-> body.files,
     model |-> IF body.model # None /\ Get(body.model) # "" THEN Get(body.model)
               ELSE gemini_model,
     approval_mode |-> body.approval_mode, sandbox |-> body.sandbox,
     mcp_servers |-> body.mcp_servers, allowed_tools |-> body.allowed_tools,
     extensions |-> body.extensions, include_directories |-> body.include_directories,
     output_format |-> body.output_format, resume_session |-> None]

\* a message of the queue: the call, how often it was retried, and its delay
Message(kwargs, retries, countdown) ==
    [kwargs |-> kwargs, retries |-> retries, countdown |-> countdown]

\* the backend's record of a task nobody has stored anything for
NoMeta == [status |-> PENDING, kind |-> "none", result |-> None]
\* a record with a returned value, and one with an exception
ValueMeta(status, value) == [status |-> status, kind |-> "value", result |-> Some(value)]
ExcMeta(status, exc) == [status |-> status, kind |-> "exception", result |-> Some(exc)]

\* an HTTP exchange
NoExchange == [method |-> "", code |-> 0, body |-> None]
Exchange(method, code, body) == [method |-> method, code |-> code, body |-> body]

\* server/models.py, lines 65-71 and 74-80
TaskCreateResponse(status) == [task_id |-> "t1", status |-> status]
TaskResultResponse(status, result, error) ==
    [task_id |-> "t1", status |-> status, result |-> result, error |-> error]

(***************************************************************************)
(* The worker: run_gemini_task, as the queue runs it.  The queue's part is *)
(* what the options of the task and of the application ask for: late       *)
(* acknowledgement, requeueing when the pool process is lost, retry with   *)
(* the exception passed on.                                                *)
(***************************************************************************)
\* the run() state of one process, without the file system
locals == <<config, pc, args, use_temp_dir, work_path, todo, initial_files, command,
            proc, outcome>>

\* str(e)
ExcStr(exc) ==
    CASE exc = "IsADirectoryError" -> "[Errno 21] Is a directory"
      [] exc = "FileExistsError" -> "[Errno 17] File exists"
      [] exc = "FileNotFoundError" -> "[Errno 2] No such file or directory"
      [] exc = "UnicodeEncodeError" -> "'utf-8' codec can't encode character"
      [] OTHER -> exc

\* _verify_cli_installed, lines 65-83: what the version check can do
CliChecks == {"ok", "FileNotFoundError", "TimeoutExpired"}
VerifyCli(check) ==
    CASE check = "FileNotFoundError" ->
            Some("Gemini CLI not found. Please install it with: npm install -g @google/gemini-cli")
      [] check = "TimeoutExpired" -> Some("Gemini CLI version check timed out")
      [] OTHER -> None

\* run_gemini_task, lines 69-76
WorkerConfig(kwargs) ==
    AgentConfig(IF kwargs.model # "" THEN kwargs.model ELSE gemini_model, gemini_timeout,
                kwargs.approval_mode, kwargs.sandbox, kwargs.output_format)

\* run_gemini_task, lines 78-86
WorkerArgs(kwargs) ==
    RunArgs(kwargs.prompt, kwargs.files, kwargs.mcp_servers, kwargs.allowed_tools,
            kwargs.extensions, kwargs.include_directories, None, kwargs.resume_session)

\* run_gemini_task, lines 90-105
ResultDict(result, kwargs) ==
    [success |-> result.success, response |-> result.response,
     modified_files |-> result.modified_files, stdout |-> result.stdout,
     stderr |-> result.stderr, return_code |-> result.return_code,
     error |-> result.error,
     options_used |-> [model |-> IF kwargs.model # "" THEN kwargs.model ELSE gemini_model,
                       approval_mode |-> kwargs.approval_mode, sandbox |-> kwargs.sandbox,
                       mcp_servers |-> kwargs.mcp_servers,
                       output_format |-> kwargs.output_format]]

\* run_gemini_task, lines 112-120
FallbackDict(exc) ==
    [success |-> FALSE, error |-> Some(ExcStr(exc)), response |-> None,
     modified_files |-> EmptyDict, stdout |-> "", stderr |-> "", return_code |-> -1]

\* a retry that never looks at the ceiling
retryUnbounded(msg, exc) ==
    [raises |-> "Retry", publish |-> {Message(msg.kwargs, msg.retries + 1, default_retry_delay)}]

\* self.retry(exc=...), line 110: past the ceiling it raises the exception it
\* was given, and MaxRetriesExceededError only when it was given none; else
\* it sends the call again, delayed, and raises Retry
retry(msg, exc) ==
    LET retries == msg.retries + 1 IN
    IF retries > max_retries
    THEN [raises |-> IF exc # None THEN "exc" ELSE "MaxRetriesExceededError", publish |-> {}]
    ELSE [raises |-> "Retry", publish |-> {Message(msg.kwargs, retries, default_retry_delay)}]

\* run_gemini_task, lines 88-120: how the call ends, given how run() ended
TaskEnd(msg, out) ==
    IF out.kind = "returned"
    THEN [kind |-> "return", value |-> ResultDict(Get(out.result), msg.kwargs), publish |-> {}]
    ELSE LET retried == retry(msg, Some(out.exc)) IN
         IF retried.raises = "MaxRetriesExceededError"
         THEN [kind |-> "return", value |-> FallbackDict(out.exc), publish |-> {}]
         ELSE [kind |-> retried.raises, value |-> out.exc, publish |-> retried.publish]

\* what the queue stores for a call that ended
Stored(end) ==
    CASE end.kind = "return" -> ValueMeta(SUCCESS, end.value)
      [] end.kind = "Retry" -> ExcMeta(RETRY, end.value)
      [] OTHER -> ExcMeta(FAILURE, end.value)

Free == [pc |-> "free", attempts |-> 0, raised |-> 0, crashes |-> 0, last |-> None]

\* the worker is inside run_gemini_task
Busy == worker.pc \in {"constructing", "running"}

\* the worker takes the message; a revoked task is dropped
Receive ==
    /\ worker.pc = "free"
    /\ broker.unacked = None
    /\ \E msg \in broker.queue :
        IF revoked
        THEN /\ broker' = [queue |-> broker.queue \ {msg}, unacked |-> None]
             /\ meta' = ExcMeta(REVOKED, "TaskRevokedError")
             /\ UNCHANGED worker
        ELSE /\ broker' = [queue |-> broker.queue \ {msg}, unacked |-> Some(msg)]
             /\ worker' = [worker EXCEPT !.pc = "constructing", !.attempts = @ + 1]
             /\ UNCHANGED meta
    /\ UNCHANGED <<locals, fs, http, request, revoked, client, clock, other, seen>>

\* run_gemini_task, lines 69-76: GeminiAgent(...), which checks the CLI
Construct ==
    /\ worker.pc = "constructing"
    /\ \E check \in CliChecks :
        LET kwargs == Get(broker.unacked).kwargs IN
        /\ config' = WorkerConfig(kwargs)
        /\ pc' = IF VerifyCli(check) = None THEN "idle" ELSE "done"
        /\ outcome' = IF VerifyCli(check) = None THEN NoOutcome
                      ELSE Raised(Get(VerifyCli(check)))
    /\ worker' = [worker EXCEPT !.pc = "running"]
    /\ initial_files' = EmptyDict
    /\ command' = <<>>
    /\ proc' = NoProc
    /\ todo' = <<>>
    /\ UNCHANGED <<fs, args, use_temp_dir, work_path>>
    /\ UNCHANGED <<http, request, broker, meta, revoked, client, clock, other, seen>>

\* the arguments of agent.run in the worker, while it has a call to make
JobArgs == IF worker.pc = "running" THEN {WorkerArgs(Get(broker.unacked).kwargs)} ELSE {}

\* run_gemini_task, lines 88-120, and the acknowledgement of the message
Finish ==
    /\ worker.pc = "running"
    /\ pc = "done"
    /\ LET end == TaskEnd(Get(broker.unacked), outcome) IN
        /\ meta' = Stored(end)
        /\ broker' = [queue |-> broker.queue \cup end.publish, unacked |-> None]
        /\ worker' = [worker EXCEPT !.pc = "free",
                                    !.raised = IF outcome.kind = "raised" THEN @ + 1 ELSE @,
                                    !.last = Some(outcome)]
    /\ pc' = "idle"
    /\ UNCHANGED <<config, fs, args, use_temp_dir, work_path, todo, initial_files,
                   command, proc, outcome>>
    /\ UNCHANGED <<http, request, revoked, client, clock, other, seen>>

\* the most pool processes the model loses
MaxCrashes == 1

\* what the backend holds after the pool process of a running call is lost,
\* had the loss been stored as a failure
WorkerLostStored(m) == ExcMeta(FAILURE, "WorkerLostError")

\* worker.py, lines 32-33: the message of a lost process is rejected and
\* requeued, and nothing is stored for the task
WorkerLost(m) == m

\* the pool process dies in the middle of the call; its workspace stays
Crash ==
    /\ Busy
    /\ worker.crashes < MaxCrashes
    /\ broker' = [queue |-> broker.queue \cup {Get(broker.unacked)}, unacked |-> None]
    /\ meta' = WorkerLost(meta)
    /\ worker' = [worker EXCEPT !.pc = "free", !.crashes = @ + 1]
    /\ pc' = "idle"
    /\ UNCHANGED <<config, fs, args, use_temp_dir, work_path, todo, initial_files,
                   command, proc, outcome>>
    /\ UNCHANGED <<http, request, revoked, client, clock, other, seen>>

\* revoke(terminate=True) reaches the worker while it runs the call: the pool
\* process is signalled, the task is stored as revoked, the message is dropped
Terminate ==
    /\ Busy
    /\ revoked
    /\ broker' = [broker EXCEPT !.unacked = None]
    /\ meta' = ExcMeta(REVOKED, "TaskRevokedError")
    /\ worker' = [worker EXCEPT !.pc = "free"]
    /\ pc' = "idle"
    /\ UNCHANGED <<config, fs, args, use_temp_dir, work_path, todo, initial_files,
                   command, proc, outcome>>
    /\ UNCHANGED <<http, request, revoked, client, clock, other, seen>>

(***************************************************************************)
(* server/routes/tasks.py                                                  *)
(***************************************************************************)
\* create_task: POST /tasks
CreateTask(universe) ==
    /\ request = None
    /\ \E body \in universe :
        IF Validates(body)
        THEN /\ request' = Some(body)
             /\ broker' = [broker EXCEPT !.queue = @ \cup {Message(TaskArgs(body), 0, 0)}]
             /\ http' = Exchange("POST", 202, Some(TaskCreateResponse(PENDING)))
        ELSE /\ http' = Exchange("POST", 422, None)
             /\ UNCHANGED <<request, broker>>
    /\ UNCHANGED <<locals, fs, meta, revoked, worker, client, clock, other, seen>>

\* get_task, lines 49-58: a status the map does not hold reads as PENDING
StatusMap(status) == IF status \in TaskStatus THEN status ELSE PENDING

\* get_task with the error filled in for every status that is not a success
GetResponseErrorUnlessSuccess(m) ==
    TaskResultResponse(StatusMap(m.status),
                       IF StatusMap(m.status) = SUCCESS THEN m.result ELSE None,
                       IF StatusMap(m.status) # SUCCESS
                       THEN Some(IF m.result # None THEN ExcStr(Get(m.result))
                                 ELSE "Unknown error")
                       ELSE None)

\* get_task, lines 58-69: the response for what the backend holds
GetResponse(m) ==
    LET current_status == StatusMap(m.status) IN
    IF current_status = SUCCESS
    THEN TaskResultResponse(current_status, m.result, None)
    ELSE IF current_status = FAILURE
         THEN TaskResultResponse(current_status, None,
                                 Some(IF m.result # None THEN ExcStr(Get(m.result))
                                      ELSE "Unknown error"))
         ELSE TaskResultResponse(current_status, None, None)

Terminal(status) == status \in {SUCCESS, FAILURE, REVOKED}

\* the first terminal response that a GET has shown
Seen(body) == IF seen = None /\ Terminal(body.status) THEN Some(body) ELSE seen

\* get_task: GET /tasks/{id}
GetTask ==
    /\ request # None
    /\ http' = Exchange("GET", 200, Some(GetResponse(meta)))
    /\ seen' = Seen(GetResponse(meta))
    /\ UNCHANGED <<locals, fs, request, broker, meta, revoked, worker, client, clock, other>>

\* a cancel that writes the revocation into the backend
RevokeStored(m) == ExcMeta(REVOKED, "TaskRevokedError")

\* async_result.revoke(terminate=True), line 76: the workers are told; the
\* backend's record of the task is not written
Revoke(m) == m

\* cancel_task: DELETE /tasks/{id}
CancelTask ==
    /\ request # None
    /\ revoked' = TRUE
    /\ meta' = Revoke(meta)
    /\ http' = Exchange("DELETE", 204, None)
    /\ UNCHANGED <<locals, fs, request, broker, worker, client, clock, other, seen>>

(***************************************************************************)
(* client/client.py: GeminiAgentClient.wait_for_result                     *)
(***************************************************************************)
\* __init__, lines 43-60
GeminiAgentClient(timeout, poll_interval) ==
    [timeout |-> timeout, poll_interval |-> poll_interval, pc |-> "idle", given |-> None,
     wait |-> 0, start_time |-> 0, status |-> "", result |-> NoOutcome]

\* lines 16-25
TaskResult(status, success, response, modified_files, error) ==
    [task_id |-> "t1", status |-> status, success |-> success, response |-> response,
     modified_files |-> modified_files, error |-> error]

\* x or y, for optional texts
Or(x, y) == IF x # None /\ Get(x) # "" THEN x ELSE y

\* line 172: timeout or self.timeout
EffectiveTimeout(given, own) == IF given # None /\ Get(given) # 0 THEN Get(given) ELSE own

\* lines 178-187: what a terminal response is turned into; its "result" is the
\* dict of the task, or null
Terminated(body) ==
    IF body.result = None
    THEN Raised("AttributeError")
    ELSE LET result == Get(body.result) IN
         Returned(TaskResult(body.status, body.status = SUCCESS /\ result.success,
                             result.response, result.modified_files,
                             Or(body.error, result.error)))

\* how long a status request can take
Latencies == {0, 1}

\* wait_for_result is called, lines 172-173
WaitForResult(universe) ==
    /\ client.pc = "idle"
    /\ request # None
    /\ \E given \in universe :
        client' = [client EXCEPT !.pc = "polling", !.given = given,
                                 !.wait = EffectiveTimeout(given, client.timeout),
                                 !.start_time = clock]
    /\ UNCHANGED <<locals, fs, http, request, broker, meta, revoked, worker, clock, other,
                   seen>>

\* lines 176-190: one status request and what follows it
Poll ==
    /\ client.pc = "polling"
    /\ \E latency \in Latencies :
        LET body == GetResponse(meta)
            now == clock + latency
        IN  /\ http' = Exchange("GET", 200, Some(body))
            /\ seen' = Seen(body)
            /\ clock' = now
            /\ client' =
                IF Terminal(body.status)
                THEN [client EXCEPT !.pc = "done", !.status = body.status,
                                    !.result = Terminated(body)]
                ELSE IF now - client.start_time > client.wait
                     THEN [client EXCEPT !.pc = "done", !.status = body.status,
                                         !.result = Raised("TimeoutError")]
                     ELSE [client EXCEPT !.pc = "sleeping", !.status = body.status]
    /\ UNCHANGED <<locals, fs, request, broker, meta, revoked, worker, other>>

\* line 192: asyncio.sleep(self.poll_interval)
Sleep ==
    /\ client.pc = "sleeping"
    /\ clock' = clock + client.poll_interval
    /\ client' = [client EXCEPT !.pc = "polling"]
    /\ UNCHANGED <<locals, fs, http, request, broker, meta, revoked, worker, other, seen>>

(***************************************************************************)
(* The pool: server/worker.py, line 35.  Its processes run on one machine  *)
(* and share the file system; one is scheduled at a time, and `other`      *)
(* holds the state of the one that is not.                                 *)
(***************************************************************************)
Parked(id, cfg) ==
    [id |-> id, config |-> cfg, pc |-> "idle",
     args |-> RunArgs("", <<>>, <<>>, <<>>, <<>>, <<>>, None, None),
     use_temp_dir |-> FALSE, work_path |-> Path("/"), todo |-> <<>>,
     initial_files |-> EmptyDict, command |-> <<>>, proc |-> NoProc, outcome |-> NoOutcome]

\* the process that is scheduled
Self == 3 - other.id

\* the scheduler takes the processor from one process and gives it to the other
Switch ==
    /\ other' = [id |-> Self, config |-> config, pc |-> pc, args |-> args,
                 use_temp_dir |-> use_temp_dir, work_path |-> work_path, todo |-> todo,
                 initial_files |-> initial_files, command |-> command, proc |-> proc,
                 outcome |-> outcome]
    /\ config' = other.config
    /\ pc' = other.pc
    /\ args' = other.args
    /\ use_temp_dir' = other.use_temp_dir
    /\ work_path' = other.work_path
    /\ todo' = other.todo
    /\ initial_files' = other.initial_files
    /\ command' = other.command
    /\ proc' = other.proc
    /\ outcome' = other.outcome
    /\ UNCHANGED <<fs, http, request, broker, meta, revoked, worker, client, clock, seen>>

DefaultConfig == AgentConfig("", 300, YOLO, FALSE, JSON)

\* the service before any request, with the client cl
ServiceInit(cl) ==
    /\ http = NoExchange
    /\ request = None
    /\ broker = [queue |-> {}, unacked |-> None]
    /\ meta = NoMeta
    /\ revoked = FALSE
    /\ worker = Free
    /\ client = cl
    /\ clock = 0
    /\ other = Parked(2, DefaultConfig)
    /\ seen = None

(***************************************************************************)
(* Spec: the workspace.  Calls with every mapping of at most MaxFiles      *)
(* files, in a temporary directory or in a directory of the caller.        *)
(***************************************************************************)
MaxFiles == 2

SeedNames == {"a", "d/a", "./a", "d/../a", "../x", "../ws2/x", "/etc/x", ".", ".h"}
SeedContents == {"x", "y\r", "~"}

Names(m) == {m[k][1] : k \in 1..Len(m)}

RECURSIVE Mappings(_)
\* the dicts of exactly n items, as the sequence of their items
Mappings(n) ==
    IF n = 0 THEN {<<>>}
    ELSE {Append(m, <<name, content>>) :
            m \in Mappings(n - 1), name \in SeedNames, content \in SeedContents}

FileMappings ==
    {m \in UNION {Mappings(n) : n \in 0..MaxFiles} : Cardinality(Names(m)) = Len(m)}

WorkDirs == {None, Some("/tmp/ws"), Some("proj")}

WsArgs ==
    {RunArgs("p", files, <<>>, <<>>, <<>>, <<>>, wd, None) :
        files \in FileMappings, wd \in WorkDirs}

ProcTargets == {"a", "n/.k", ".h"}
ProcData == {"x", "z", "#"}
Effects == {<<>>} \cup {<< <<name, bytes>> >> : name \in ProcTargets, bytes \in ProcData}

WsProcs ==
    {Timeout(w) : w \in Effects} \cup {Failed("[Errno 2] No such file or directory: 'gemini'")}
    \cup {Completed(0, "{}", "", w) : w \in Effects}

Init == Constructed(DefaultConfig) /\ ServiceInit(GeminiAgentClient(300, 1))

Next == Call(WsArgs) \/ Seed \/ Build \/ RunProcess(WsProcs) \/ Assemble

Spec == Init /\ [][Next]_vars

(***************************************************************************)
(* SpecOutcome: the outcome.  Every output format and two timeouts, and a  *)
(* process that times out, cannot be started, or ends with every stdout of *)
(* at most MaxStdout characters.                                           *)
(***************************************************************************)
MaxStdout == 3

JsonChars == {"[", "]", "{", "}", "1", ","}

RECURSIVE Texts(_)
\* the texts of at most n characters
Texts(n) ==
    IF n = 0 THEN {""}
    ELSE Texts(n - 1) \cup {t \o c : t \in Texts(n - 1), c \in JsonChars}

Timeouts == {5, 300}
ExitCodes == {0, 1, -9}
Stderrs == {"", "boom"}
ErrorMessages ==
    {"[Errno 2] No such file or directory: 'gemini'", "[Errno 13] Permission denied: 'gemini'"}

OutConfigs == {AgentConfig("", t, YOLO, FALSE, fmt) : t \in Timeouts, fmt \in OutputFormat}

OutArgs ==
    {RunArgs("p", <<>>, <<>>, <<>>, <<>>, <<>>, None, None),
     RunArgs("p", << <<"a", "x">> >>, <<>>, <<>>, <<>>, <<>>, Some("/tmp/ws"), None),
     RunArgs("p", <<>>, <<>>, <<>>, <<>>, <<>>, Some("/tmp/f"), None)}

OutProcs ==
    {Timeout(<<>>)} \cup {Failed(msg) : msg \in ErrorMessages}
    \cup {Completed(rc, out, err, <<>>) :
            rc \in ExitCodes, out \in Texts(MaxStdout), err \in Stderrs}

InitOutcome == (\E cfg \in OutConfigs : Constructed(cfg)) /\ ServiceInit(GeminiAgentClient(300, 1))

NextOutcome == Call(OutArgs) \/ Seed \/ Build \/ RunProcess(OutProcs) \/ Assemble

SpecOutcome == InitOutcome /\ [][NextOutcome]_vars

(***************************************************************************)
(* SpecCommand: the argument list.  Every configuration of model,          *)
(* approval mode, sandbox and format, and requests whose lists hold at     *)
(* most MaxList values.                                                    *)
(***************************************************************************)
MaxList == 2

RECURSIVE Lists(_, _)
\* the lists of at most n values of S
Lists(S, n) ==
    IF n = 0 THEN {<<>>}
    ELSE Lists(S, n - 1) \cup {Append(l, v) : l \in Lists(S, n - 1), v \in S}

CmdConfigs ==
    {AgentConfig(model, 300, mode, sandbox, fmt) :
        model \in {"", "gemini-2.5-flash"}, mode \in ApprovalMode,
        sandbox \in BOOLEAN, fmt \in {JSON, TEXT}}

CmdArgs ==
    {RunArgs("do it", << <<"a", "x">> >>, mcp, tools, exts, dirs, None, resume) :
        mcp \in Lists({"s1", "s2"}, MaxList), tools \in {<<>>, <<"t1">>},
        exts \in {<<>>, <<"e1", "e2">>}, dirs \in Lists({"d1", "d2"}, MaxList),
        resume \in {None, Some(""), Some("latest")}}

CmdProcs == {Timeout(<<>>), Failed("[Errno 2] No such file or directory: 'gemini'"),
             Completed(0, "{}", "", <<>>)}

InitCommand == (\E cfg \in CmdConfigs : Constructed(cfg)) /\ ServiceInit(GeminiAgentClient(300, 1))

NextCommand == Call(CmdArgs) \/ Seed \/ Build \/ RunProcess(CmdProcs) \/ Assemble

SpecCommand == InitCommand /\ [][NextCommand]_vars

(***************************************************************************)
(* SpecService: the service with its worker.  One request, accepted or     *)
(* rejected; the CLI present or missing at each attempt; seed files that   *)
(* can or cannot be written; a pool process lost at most MaxCrashes times; *)
(* status requests and cancel requests at any moment.                      *)
(***************************************************************************)
Contexts == {None, Some(<<>>), Some(<< <<"k", 1>> >>)}

ServiceFiles == {<<>>, << <<"a", "x">> >>, << <<".", "x">> >>}

ServiceRequests ==
    {TaskRequest(prompt, None, mode, FALSE, <<>>, <<>>, <<>>, <<>>, JSON, files, context) :
        prompt \in {"", "p"}, mode \in {YOLO, "never"}, files \in ServiceFiles,
        context \in Contexts}

ServiceProcs ==
    {Timeout(<<>>), Failed("[Errno 2] No such file or directory: 'gemini'"),
     Completed(0, "{}", "", <<>>), Completed(1, "", "boom", << <<"a", "z">> >>)}

InitService == Constructed(DefaultConfig) /\ ServiceInit(GeminiAgentClient(300, 1))

NextService ==
    \/ CreateTask(ServiceRequests) \/ Receive \/ Construct \/ Call(JobArgs) \/ Seed
    \/ Build \/ RunProcess(ServiceProcs) \/ Assemble \/ Finish \/ Crash \/ Terminate
    \/ GetTask \/ CancelTask

SpecService == InitService /\ [][NextService]_vars

(***************************************************************************)
(* SpecClient: the polling client against the service.  A client with a   *)
(* timeout of its own waits for the task with no timeout, with a timeout   *)
(* of zero or with a shorter one, while the worker runs the task, which    *)
(* succeeds, fails or is cancelled.                                        *)
(***************************************************************************)
ClientTimeout == 2

GivenTimeouts == {None, Some(0), Some(1)}

ClientRequests ==
    {TaskRequest("p", None, YOLO, FALSE, <<>>, <<>>, <<>>, <<>>, JSON, files, None) :
        files \in {<<>>, << <<".", "x">> >>}}

ClientProcs == {Completed(0, "{}", "", <<>>), Completed(1, "", "boom", <<>>)}

InitClient == Constructed(DefaultConfig) /\ ServiceInit(GeminiAgentClient(ClientTimeout, 1))

NextClient ==
    \/ CreateTask(ClientRequests) \/ Receive \/ Construct \/ Call(JobArgs) \/ Seed
    \/ Build \/ RunProcess(ClientProcs) \/ Assemble \/ Finish \/ Terminate
    \/ CancelTask \/ WaitForResult(GivenTimeouts) \/ Poll \/ Sleep

SpecClient == InitClient /\ [][NextClient]_vars

(***************************************************************************)
(* SpecPool: two jobs in two processes of the pool, interleaved in every   *)
(* way.  Job 1 seeds and writes the text "x" and job 2 the text "y", under *)
(* the same names, and each also names files in the workspaces the other   *)
(* may have been given.                                                    *)
(***************************************************************************)
Mark(id) == IF id = 1 THEN "x" ELSE "y"

PoolSeedNames == {"a", "../gemini_agent_b/a", "../gemini_agent_c/a"}

PoolArgs(id) ==
    {RunArgs("p", files, <<>>, <<>>, <<>>, <<>>, None, None) :
        files \in {<<>>} \cup {<< <<name, Mark(id)>> >> : name \in PoolSeedNames}}

PoolProcs(id) ==
    {Timeout(<<>>)}
    \cup {Completed(0, "{}", "", w) :
            w \in {<<>>, << <<"a", Mark(id) \o "1">> >>, << <<"b", Mark(id)>> >>}}

InitPool == Constructed(DefaultConfig) /\ ServiceInit(GeminiAgentClient(300, 1))

NextPool ==
    \/ Call(PoolArgs(Self)) \/ Seed \/ Build \/ RunProcess(PoolProcs(Self)) \/ Assemble
    \/ Switch

SpecPool == InitPool /\ [][NextPool]_vars

(***************************************************************************)
(* SpecPrompt: the prompt on its way from the request to the process.      *)
(* Prompts that are empty, short, as long as the cap and one longer, with  *)
(* and without a context.                                                  *)
(***************************************************************************)
RECURSIVE Repeat(_, _)
\* the text c, n times
Repeat(c, n) ==
    IF n = 0 THEN ""
    ELSE IF n % 2 = 0 THEN LET half == Repeat(c, n \div 2) IN half \o half
         ELSE c \o Repeat(c, n - 1)

Prompts == {"", "p", Repeat("p", max_length), Repeat("p", max_length + 1)}

PromptRequests ==
    {TaskRequest(prompt, None, YOLO, FALSE, <<>>, <<>>, <<>>, <<>>, JSON, files, context) :
        prompt \in Prompts, files \in {<<>>, << <<"a", "x">> >>}, context \in Contexts}

PromptProcs == {Timeout(<<>>), Completed(0, "{}", "", <<>>)}

InitPrompt == Constructed(DefaultConfig) /\ ServiceInit(GeminiAgentClient(300, 1))

NextPrompt ==
    \/ CreateTask(PromptRequests) \/ Receive \/ Construct \/ Call(JobArgs) \/ Seed
    \/ Build \/ RunProcess(PromptProcs) \/ Assemble \/ Finish \/ GetTask

SpecPrompt == InitPrompt /\ [][NextPrompt]_vars

(***************************************************************************)
(* SpecAgree: the request fields on their way to the command.  Bodies with *)
(* every field of an execution request set or left out; a resume token is  *)
(* a key that TaskRequest does not declare, which the validation ignores.  *)
(***************************************************************************)
\* a body with the key resume_session beside the fields of TaskRequest
WithResume(body, resume_session) == [resume_session |-> resume_session] @@ body

AgreeRequests ==
    {WithResume(TaskRequest("p", model, mode, sandbox, mcp, tools, exts, dirs, fmt, files, None),
                resume) :
        model \in {None, Some("gemini-2.5-flash")}, mode \in ApprovalMode,
        sandbox \in BOOLEAN, mcp \in {<<>>, <<"s1">>}, tools \in {<<>>, <<"t1">>},
        exts \in {<<>>, <<"e1">>}, dirs \in {<<>>, <<"d1", "d2">>}, fmt \in {JSON, TEXT},
        files \in {<<>>, << <<"a", "x">> >>}, resume \in {None, Some("latest")}}

AgreeProcs == {Timeout(<<>>), Completed(0, "{}", "", <<>>)}

InitAgree == Constructed(DefaultConfig) /\ ServiceInit(GeminiAgentClient(300, 1))

NextAgree ==
    \/ CreateTask(AgreeRequests) \/ Receive \/ Construct \/ Call(JobArgs) \/ Seed
    \/ Build \/ RunProcess(AgreeProcs) \/ Assemble \/ Finish

SpecAgree == InitAgree /\ [][NextAgree]_vars

(***************************************************************************)
(* Properties.                                                             *)
(***************************************************************************)
Result == Get(outcome.result)
HasReturned == pc = "done" /\ outcome.kind = "returned"

\* a regular file that the call created or wrote
Touched(loc) == IsFile(fs, loc) /\ (loc \notin DOMAIN InitFs \/ fs[loc] # InitFs[loc])

\* C1: whatever the working directory and the files mapping are, no file is
\* created or written outside the workspace root directory.
C1_NoFileOutsideWorkspace ==
    \A loc \in DOMAIN fs : Touched(loc) => IsUnder(loc, Resolve(work_path))

\* C2: run() returns an AgentResult and never lets an exception escape.
C2_RunNeverRaises == outcome.kind # "raised"

\* C3: when the process exceeds the timeout T, run() returns success = false,
\* return_code = -1, empty stdout and stderr, and an error message that
\* contains "timed out after T".
C3_TimeoutOutcome ==
    (pc = "done" /\ proc.kind = "timeout") =>
        /\ outcome.kind = "returned"
        /\ Result.success = FALSE
        /\ Result.return_code = -1
        /\ Result.stdout = ""
        /\ Result.stderr = ""
        /\ Result.error # None
        /\ Contains(Get(Result.error), "timed out after " \o ToString(config.timeout))

\* C3 witness: a process that exceeded a timeout of 5 and the outcome naming it
C3_Witness ==
    /\ HasReturned
    /\ proc.kind = "timeout"
    /\ config.timeout = 5
    /\ Result.error = Some("Command timed out after 5 seconds")

ProcessFailed ==
    pc = "done" /\ (proc.kind = "error" \/ (proc.kind = "completed" /\ proc.returncode # 0))

\* C4 (as stated): when the process exits non-zero or cannot be started, the
\* outcome has success = false and a non-empty error message.
C4_FailureHasErrorMessage ==
    ProcessFailed =>
        /\ outcome.kind = "returned"
        /\ Result.success = FALSE
        /\ Result.error # None
        /\ Get(Result.error) # ""

\* C4 (amended): when the process exits non-zero or cannot be started, the
\* outcome has success = false; if it cannot be started the error message is
\* the exception's text and return_code is -1; if it exits non-zero no error
\* message is set, and stderr and return_code are those of the process.
C4_FailureOutcome ==
    ProcessFailed =>
        /\ outcome.kind = "returned"
        /\ Result.success = FALSE
        /\ proc.kind = "error" =>
            /\ Result.error = Some(proc.msg)
            /\ Result.return_code = -1
        /\ proc.kind = "completed" =>
            /\ Result.error = None
            /\ Result.stderr = proc.stderr
            /\ Result.return_code = proc.returncode

\* C4 witness: a process that wrote to stderr and exited with code 1
C4_Witness ==
    /\ HasReturned
    /\ proc.kind = "completed"
    /\ proc.returncode = 1
    /\ Result.stderr = "boom"
    /\ Result.success = FALSE

\* C5: with output format JSON, exit code 0 and a non-empty stdout that parses
\* as JSON, the outcome has success = true, response equal to the parsed
\* structure and return_code = 0.
C5_ParsedResponse ==
    (/\ pc = "done"
     /\ proc.kind = "completed"
     /\ config.output_format = JSON
     /\ proc.returncode = 0
     /\ proc.stdout # ""
     /\ JsonLoads(proc.stdout).raised = None) =>
        /\ outcome.kind = "returned"
        /\ Result.success = TRUE
        /\ Result.response = Some(JsonLoads(proc.stdout).val)
        /\ Result.return_code = 0

\* C5 witness: stdout "[1]" returned as the array holding the number 1
C5_Witness ==
    /\ HasReturned
    /\ config.output_format = JSON
    /\ proc.kind = "completed"
    /\ proc.returncode = 0
    /\ proc.stdout = "[1]"
    /\ Result.success
    /\ Result.response = Some(JArr(<<JNum(1)>>))

SeedLocation(name) == Resolve(Join(work_path, name))

\* C7: if the process writes nothing into the workspace, a seeded file does
\* not appear in modified_files, whatever its name and content are, and in a
\* fresh workspace modified_files is empty.
C7_UntouchedWorkspaceHasNoDiff ==
    (HasReturned /\ proc.kind = "completed" /\ proc.writes = <<>>) =>
        /\ use_temp_dir => Result.modified_files = EmptyDict
        /\ \A name \in DOMAIN initial_files :
                IsUnder(SeedLocation(name), Resolve(work_path)) =>
                    RelativeTo(SeedLocation(name), Resolve(work_path))
                        \notin DOMAIN Result.modified_files

\* the first segment of the path of loc below root
FirstSegment(loc, root) == loc[Len(root) + 1]

\* the items of files that were written to the relative path r of the workspace
SeedsAt(r) ==
    {k \in 1..Len(args.files) :
        /\ args.files[k][1] \in DOMAIN initial_files
        /\ IsUnder(SeedLocation(args.files[k][1]), Resolve(work_path))
        /\ RelativeTo(SeedLocation(args.files[k][1]), Resolve(work_path)) = r}

\* the pre-execution snapshot: the content last seeded at the relative path r
SnapshotContent(r) == args.files[CHOOSE k \in SeedsAt(r) : \A j \in SeedsAt(r) : j <= k][2]

\* the relative paths that the claim puts into modified_files, with their content
ExpectedDiff(f, root) ==
    {<<RelativeTo(loc, root), UniversalNewlines(f[loc].data)>> :
        loc \in {l \in DOMAIN f :
                    /\ Len(l) > Len(root)
                    /\ SubSeq(l, 1, Len(root)) = root
                    /\ f[l].kind = "file"
                    /\ Decodable(f[l].data)
                    /\ Head(FirstSegment(l, root)) # "."
                    /\ \/ SeedsAt(RelativeTo(l, root)) = {}
                       \/ SnapshotContent(RelativeTo(l, root)) # UniversalNewlines(f[l].data)}}

\* a dict as the set of its items
Items(d) == {<<k, d[k]>> : k \in DOMAIN d}

\* C8: after a completed execution, modified_files is exactly the mapping
\* relative path -> current content over the decodable regular files below
\* the workspace root whose first path segment does not start with a dot and
\* that are absent from the snapshot or present in it with another content;
\* unchanged files are omitted.
C8_ModifiedFilesExact ==
    [][(pc = "ran" /\ pc' = "done") =>
        /\ outcome'.kind = "returned"
        /\ Items(Get(outcome'.result).modified_files)
             = ExpectedDiff(fs, Resolve(work_path))]_vars

Executing == pc \in {"seeding", "built", "ran"}

\* C9: without a working_directory, a fresh temporary directory exists for the
\* whole execution and is gone once run() has returned or raised; a working
\* directory of the caller is created if missing and never deleted.
C9_WorkspaceLifetime ==
    /\ (use_temp_dir /\ Executing) =>
            /\ IsDir(fs, Resolve(work_path))
            /\ ~Exists(InitFs, Resolve(work_path))
    /\ (use_temp_dir /\ pc = "done") =>
            \A loc \in DOMAIN fs : ~IsUnder(loc, Resolve(work_path))
    /\ (~use_temp_dir /\ Executing) => IsDir(fs, Resolve(work_path))
    /\ (~use_temp_dir /\ pc = "done") =>
            /\ Exists(fs, Resolve(work_path))
            /\ outcome.kind = "returned" => IsDir(fs, Resolve(work_path))

\* C9 witness: run() raised while seeding a temporary directory, which is gone
C9_Witness ==
    /\ pc = "done"
    /\ use_temp_dir
    /\ outcome.kind = "raised"
    /\ ~Exists(fs, Resolve(work_path))
    /\ ~Exists(InitFs, Resolve(work_path))

\* C9 witness of a directory of the caller that run() created and left
C9_WitnessKept ==
    /\ HasReturned
    /\ ~use_temp_dir
    /\ ~Exists(InitFs, <<"tmp", "ws">>)
    /\ IsFile(fs, <<"tmp", "ws", "a">>)

\* C9 witness of a relative directory of the caller that existed before
C9_WitnessExisting ==
    /\ HasReturned
    /\ args.working_directory = Some("proj")
    /\ IsFile(fs, <<"home", "proj", "keep">>)
    /\ IsFile(fs, <<"home", "proj", "a">>)

\* a flag followed by all the values of a non-empty list
FlagWithValues(flag, values) == IF values = <<>> THEN <<>> ELSE <<flag>> \o values

\* one "--include-directories <dir>" pair per directory
IncludeDirectoryPairs(dirs) ==
    [k \in 1..(2 * Len(dirs)) |->
        IF k % 2 = 1 THEN "--include-directories" ELSE dirs[k \div 2]]

\* the argument list that the claim describes, for the current call
ExpectedCommand ==
    <<"gemini", "--output-format", config.output_format>>
    \o (IF config.model = "" THEN <<>> ELSE <<"--model", config.model>>)
    \o (CASE config.approval_mode = YOLO -> <<"-y">>
          [] config.approval_mode = DEFAULT -> <<"--approval-mode", "default">>
          [] config.approval_mode = AUTO_EDIT -> <<"--approval-mode", "auto_edit">>)
    \o (IF config.sandbox THEN <<"--sandbox">> ELSE <<>>)
    \o FlagWithValues("--allowed-mcp-server-names", args.mcp_servers)
    \o FlagWithValues("--allowed-tools", args.allowed_tools)
    \o FlagWithValues("--extensions", args.extensions)
    \o IncludeDirectoryPairs(args.include_directories)
    \o (IF args.resume_session \in {None, Some("")} THEN <<>>
        ELSE <<"--resume", Get(args.resume_session)>>)
    \o <<args.prompt>>

Count(seq, x) == Cardinality({k \in 1..Len(seq) : seq[k] = x})

\* C10: the argument list is, in this order: the binary, the output format
\* flag and value, "--model <m>" if the model is non-empty, "-y" or
\* "--approval-mode <value>" (exactly one of them), "--sandbox" if true, one
\* flag with all values for each non-empty list, one "--include-directories
\* <dir>" pair per directory, "--resume <token>" if there is a token, and the
\* prompt last.
C10_CommandList ==
    pc \in {"built", "ran"} =>
        /\ command = ExpectedCommand
        /\ command[Len(command)] = args.prompt
        /\ Count(command, "-y") + Count(command, "--approval-mode") = 1
        /\ Count(command, "--include-directories") = Len(args.include_directories)

\* C10 witness: a request with every option set
C10_Witness ==
    /\ pc = "built"
    /\ command = <<"gemini", "--output-format", "json", "--model", "gemini-2.5-flash",
                   "--approval-mode", "auto_edit", "--sandbox",
                   "--allowed-mcp-server-names", "s1", "s2", "--allowed-tools", "t1",
                   "--extensions", "e1", "e2", "--include-directories", "d1",
                   "--include-directories", "d2", "--resume", "latest", "do it">>

\* C11: bounded retry.  The calls that ended by raising are at most the first
\* attempt and max_retries retries (so the attempts are at most these and the
\* redeliveries after a lost process); no message is retried more often than
\* the ceiling; a raising call that is not the last one leaves the task in
\* RETRY with one message for the next attempt; after the last one the task
\* is terminal with nothing left to run; and once the task is terminal no
\* attempt is started and the status stays.
C11_BoundedRetry ==
    [][/\ worker'.raised <= max_retries + 1
       /\ worker'.attempts <= max_retries + 1 + worker'.crashes
       /\ \A m \in broker'.queue : m.retries <= max_retries
       /\ worker'.raised > worker.raised =>
            IF worker'.raised <= max_retries
            THEN /\ meta'.status = RETRY
                 /\ broker'.queue = {Message(Get(broker.unacked).kwargs, worker'.raised,
                                             default_retry_delay)}
            ELSE /\ Terminal(meta'.status)
                 /\ broker'.queue = {}
       /\ Terminal(meta.status) =>
            /\ worker'.attempts = worker.attempts
            /\ meta'.status = meta.status
            /\ broker'.queue = {}]_vars

\* a task that raised on the first attempt and on both retries, and is terminal
C11_Witness ==
    /\ worker.raised = max_retries + 1
    /\ worker.attempts >= max_retries + 1
    /\ Terminal(meta.status)
    /\ worker.pc = "free"

\* the kwargs of the one task
Kwargs == TaskArgs(Get(request))

\* C12: redelivery after a lost pool process.  Once a status request has
\* shown a terminal status, every status request shows that same response
\* (status, result and error); and the response is that of the last attempt
\* that ran to its end: its result dict, with its return code, for SUCCESS,
\* and the text of its exception for FAILURE.
C12_TerminalOnce ==
    seen # None =>
        /\ GetResponse(meta) = Get(seen)
        /\ Get(seen).status = SUCCESS =>
              /\ worker.last # None
              /\ Get(worker.last).kind = "returned"
              /\ Get(seen).result = Some(ResultDict(Get(Get(worker.last).result), Kwargs))
              /\ Get(Get(seen).result).return_code = Get(Get(worker.last).result).return_code
        /\ Get(seen).status = FAILURE =>
              /\ worker.last # None
              /\ Get(worker.last).kind = "raised"
              /\ Get(seen).error = Some(ExcStr(Get(worker.last).exc))

\* a task whose message was redelivered, run again to its end, and polled
C12_Witness ==
    /\ worker.crashes >= 1
    /\ worker.attempts >= 2
    /\ seen # None
    /\ Get(seen).status = SUCCESS
    /\ http.method = "GET"
    /\ http.body = seen

\* the same, for a task that failed on every attempt
C12_WitnessFailure ==
    /\ worker.crashes >= 1
    /\ seen # None
    /\ Get(seen).status = FAILURE
    /\ http.method = "GET"

\* C13: cancel after SUCCESS.  From a state where the task is SUCCESS, no
\* step (a cancel request, repeated or not, among them) changes the record of
\* the task, the queue or the worker, so every status request keeps showing
\* SUCCESS with the same result; and a cancel request is answered 204 with no
\* content.
C13_CancelAfterSuccess ==
    [][/\ http'.method = "DELETE" => http'.code = 204 /\ http'.body = None
       /\ meta.status = SUCCESS =>
            /\ meta' = meta
            /\ GetResponse(meta') = GetResponse(meta)
            /\ GetResponse(meta').status = SUCCESS
            /\ broker' = broker
            /\ worker' = worker]_vars

\* a cancel request answered after a status request has shown SUCCESS
C13_Witness ==
    /\ seen # None
    /\ Get(seen).status = SUCCESS
    /\ http.method = "DELETE"
    /\ revoked
    /\ meta.status = SUCCESS

\* the fields of an ExecutionOutcome
OutcomeFields == {"success", "response", "modified_files", "stdout", "stderr", "return_code",
                  "error"}

\* C14: the response of GET /tasks/{id}.  Its status is the status the backend
\* holds when the request is answered; "result" is present exactly for
\* SUCCESS, and is then the outcome of the call that succeeded; "error" is
\* present exactly for FAILURE, and is then a non-empty text; so both are
\* null for PENDING, STARTED, RETRY and REVOKED.
C14_StatusResponse ==
    [][http'.method = "GET" =>
        LET body == Get(http'.body) IN
        /\ http'.code = 200
        /\ http' # http => body.status = meta.status /\ meta' = meta
        /\ body.status \in TaskStatus
        /\ body.result # None <=> body.status = SUCCESS
        /\ body.error # None <=> body.status = FAILURE
        /\ body.status = SUCCESS =>
              /\ OutcomeFields \subseteq DOMAIN Get(body.result)
              /\ \A field \in OutcomeFields :
                    Get(body.result)[field] = Get(Get(worker'.last).result)[field]
        /\ body.status = FAILURE => Get(body.error) # ""
        /\ body.status \in {PENDING, STARTED, RETRY, REVOKED} =>
              body.result = None /\ body.error = None]_vars

\* a response for a failed task, with its error
C14_Witness ==
    /\ http.method = "GET"
    /\ Get(http.body).status = FAILURE
    /\ Get(http.body).error = Some("[Errno 21] Is a directory")
    /\ Get(http.body).result = None

\* a response for a task that succeeded, with its outcome
C14_WitnessSuccess ==
    /\ http.method = "GET"
    /\ Get(http.body).status = SUCCESS
    /\ Get(http.body).result # None
    /\ Get(Get(http.body).result).return_code = 1

\* responses for a task waiting to be retried, and for a revoked task
C14_WitnessRetry == http.method = "GET" /\ Get(http.body).status = RETRY
C14_WitnessRevoked == http.method = "GET" /\ Get(http.body).status = REVOKED

\* the overall timeout of the wait: the given one, else the client's
OverallTimeout == IF client.given # None THEN Get(client.given) ELSE client.timeout

Elapsed == clock - client.start_time

\* C15: wait_for_result terminates.  It returns a result only for a terminal
\* status; it goes on to sleep only while the elapsed time has not passed the
\* overall timeout, so that the wait ends within the timeout, one sleep and
\* one request; and it raises the timeout failure only past the timeout and
\* for a status that is not terminal.
C15_WaitTerminates ==
    /\ client.result.kind = "returned" => Terminal(client.status)
    /\ client.pc = "sleeping" => Elapsed <= OverallTimeout
    /\ client.pc \in {"polling", "sleeping"} =>
            Elapsed <= OverallTimeout + client.poll_interval
    /\ client.result = Raised("TimeoutError") =>
            ~Terminal(client.status) /\ Elapsed > OverallTimeout
    /\ client.pc = "done" => client.result.kind # "none"

\* C16: every terminal status is returned.  When the wait ends on a terminal
\* status it has returned a TaskResult with that status; for FAILURE and
\* REVOKED its success is false and its error is the error of the response;
\* and its success is true only for SUCCESS with a successful outcome.
C16_TerminalStatusReturned ==
    client.pc = "done" /\ Terminal(client.status) =>
        /\ client.result.kind = "returned"
        /\ Get(client.result.result).status = client.status
        /\ client.status \in {FAILURE, REVOKED} =>
              /\ Get(client.result.result).success = FALSE
              /\ Get(client.result.result).error = Get(seen).error
        /\ Get(client.result.result).success =>
              /\ client.status = SUCCESS
              /\ Get(Get(seen).result).success

\* C17: retries exhausted.  Once the call has raised on the first attempt and
\* on every retry, the call has returned (its exception did not leave it) and
\* the backend holds the failure outcome built from the exception: success
\* false, error its text, return code -1, no modified files; the task is
\* terminal and a status request shows that failed outcome.
C17_ExhaustedRetriesRecorded ==
    worker.raised = max_retries + 1 =>
        /\ Terminal(meta.status)
        /\ meta.kind = "value"
        /\ Get(meta.result) = FallbackDict(Get(worker.last).exc)
        /\ Get(meta.result).success = FALSE
        /\ Get(meta.result).error = Some(ExcStr(Get(worker.last).exc))
        /\ Get(meta.result).return_code = -1
        /\ Get(meta.result).modified_files = EmptyDict
        /\ GetResponse(meta).result = meta.result

\* the files hold a path inside the workspace and one outside it
MixedMapping ==
    /\ \E k \in 1..Len(args.files) :
            IsUnder(SeedLocation(args.files[k][1]), Resolve(work_path))
    /\ \E k \in 1..Len(args.files) :
            ~IsUnder(SeedLocation(args.files[k][1]), Resolve(work_path))

\* C18: a seed path that escapes the workspace is skipped.  For files that mix
\* paths inside and outside the workspace, each step of the
\* loop over the files goes on to the next item, whatever came before it: a
\* path inside the workspace is then a file with the item's content and is in
\* the snapshot with that content; a path outside it leaves the file system
\* and the snapshot as they were; and the loop is never left by an exception,
\* so the command is built and the process started after the last item.
C18_EscapingSeedSkipped ==
    [][pc = "seeding" /\ todo # <<>> /\ MixedMapping =>
        LET filename == Head(todo)[1]
            content == Head(todo)[2]
            loc == SeedLocation(filename)
        IN  /\ pc' = "seeding"
            /\ outcome'.kind # "raised"
            /\ todo' = Tail(todo)
            /\ IF IsUnder(loc, Resolve(work_path))
               THEN /\ IsFile(fs', loc)
                    /\ fs'[loc].data = Encode(content)
                    /\ filename \in DOMAIN initial_files'
                    /\ initial_files'[filename] = content
               ELSE /\ fs' = fs
                    /\ initial_files' = initial_files]_vars

\* the texts that the job of process id seeds or writes
OwnTexts(id) == {Mark(id), Mark(id) \o "1"}

\* the files below a workspace hold only the texts of its job
OnlyOwn(id, wp) ==
    \A loc \in Rglob(fs, Resolve(wp)) : IsFile(fs, loc) => fs[loc].data \in OwnTexts(id)

\* the modified_files of a result hold only the texts of the job
OnlyOwnReported(id, out) ==
    out.kind = "returned" =>
        \A r \in DOMAIN Get(out.result).modified_files :
            Get(out.result).modified_files[r] \in OwnTexts(id)

\* C19: job isolation.  While two jobs are both between the creation and the
\* removal of their workspaces, the two workspaces are different directories
\* that did not exist before, neither inside the other, and each holds only
\* what its own job seeded or wrote; and the modified_files of each job's
\* result hold only texts of that job.
C19_JobIsolation ==
    /\ Executing /\ other.pc \in {"seeding", "built", "ran"} =>
          /\ Resolve(work_path) # Resolve(other.work_path)
          /\ ~IsUnder(Resolve(work_path), Resolve(other.work_path))
          /\ ~IsUnder(Resolve(other.work_path), Resolve(work_path))
          /\ Resolve(work_path) \notin DOMAIN InitFs
          /\ Resolve(other.work_path) \notin DOMAIN InitFs
    /\ Executing => OnlyOwn(Self, work_path)
    /\ other.pc \in {"seeding", "built", "ran"} => OnlyOwn(other.id, other.work_path)
    /\ OnlyOwnReported(Self, outcome)
    /\ OnlyOwnReported(other.id, other.outcome)

\* a job that reports a file while the other job is between its seeding and
\* its result, with a file of the same name in its own workspace
C19_Witness ==
    /\ HasReturned
    /\ "a" \in DOMAIN Result.modified_files
    /\ other.pc = "ran"
    /\ IsFile(fs, Resolve(other.work_path) \o <<"a">>)

\* a prompt within the bounds of the request model
Bounded(prompt) == min_length <= Len(prompt) /\ Len(prompt) <= max_length

\* the messages of the queue, waiting or not acknowledged
Messages == broker.queue \cup (IF broker.unacked = None THEN {} ELSE {Get(broker.unacked)})

\* C20: the prompt bound.  Every request that POST /tasks accepted has its
\* prompt enqueued non-empty and no longer than max_length characters, and
\* the last argument of the command that the worker builds for it is that
\* prompt, within the same bounds.
C20_PromptBounded ==
    /\ \A m \in Messages : Bounded(m.kwargs.prompt)
    /\ worker.pc = "running" /\ pc \in {"built", "ran"} =>
          /\ command[Len(command)] = Get(broker.unacked).kwargs.prompt
          /\ Bounded(command[Len(command)])

\* direct mode for the field values of a body: GeminiAgent(model=...,
\* approval_mode=..., sandbox=..., output_format=...) and the arguments of run
DirectConfig(body) ==
    AgentConfig(IF body.model = None THEN "" ELSE Get(body.model), gemini_timeout,
                body.approval_mode, body.sandbox, body.output_format)

DirectArgs(body) ==
    RunArgs(body.prompt, body.files, body.mcp_servers, body.allowed_tools, body.extensions,
            body.include_directories, None, body.resume_session)

\* C21: service mode and direct mode agree.  Once the worker has built the
\* command for an accepted request, the command is the one direct mode builds
\* from the same field values (resume token included), and the files it has
\* seeded the workspace with are the files of the request.
C21_ServiceAgreesWithDirect ==
    worker.pc = "running" /\ pc \in {"built", "ran"} =>
        /\ command = BuildCommand(DirectConfig(Get(request)), DirectArgs(Get(request)))
        /\ args.files = Get(request).files
        /\ args.resume_session = Get(request).resume_session
        /\ \A k \in 1..Len(Get(request).files) :
              /\ Get(request).files[k][1] \in DOMAIN initial_files
              /\ initial_files[Get(request).files[k][1]] = Get(request).files[k][2]

=============================================================================
